---- MODULE Spec2Model ----
(***************************************************************************)
(* GlucoFlow: the glycemic-risk engine (get_prediction_and_explanation),   *)
(* the feedback generator (generate_personalized_feedback) and the Flask   *)
(* endpoints /onboard and /add_log of src/app.py.                          *)
(*                                                                         *)
(* Two specifications:                                                     *)
(*   SpecEngine  one call of the engine followed by the feedback           *)
(*               generator, for every profile and log of a bounded domain  *)
(*   Spec        the API server: USER_DATABASE under /onboard and /add_log *)
(***************************************************************************)
EXTENDS Integers, Sequences, FiniteSets, TLC

VARIABLES pc, user, log, risk_score, explanation, suggestion,
          USER_DATABASE, response, core_called

vars == <<pc, user, log, risk_score, explanation, suggestion,
          USER_DATABASE, response, core_called>>

engineVars == <<pc, user, log, risk_score, explanation, suggestion>>
apiVars == <<USER_DATABASE, response, core_called>>

(***************************************************************************)
(* Python floats.  Every binary64 value the engine computes is an integer  *)
(* multiple of 2^-56 of magnitude below 4.  A value v is held as the pair  *)
(* <<hi, lo>> with v = (hi * 2^28 + lo) * 2^-56, 0 <= lo < 2^28, hi signed *)
(* (floor), so that both limbs stay inside 32-bit integers.                *)
(***************************************************************************)
LimbBase == 268435456
HalfLimb == 16384
MantissaBits == 53

RECURSIVE BitLen(_)
BitLen(n) == IF n = 0 THEN 0 ELSE 1 + BitLen(n \div 2)

RECURSIVE Pow2(_)
Pow2(k) == IF k = 0 THEN 1 ELSE 2 * Pow2(k - 1)

FZero == <<0, 0>>

FNeg(a) == IF a[2] = 0 THEN <<0 - a[1], 0>> ELSE <<0 - a[1] - 1, LimbBase - a[2]>>

FIsNeg(a) == a[1] < 0

FLess(a, b) == a[1] < b[1] \/ (a[1] = b[1] /\ a[2] < b[2])

FGreater(a, b) == FLess(b, a)

\* carry from the low limb into the high limb
FNorm(hi, lo) == IF lo >= LimbBase THEN <<hi + 1, lo - LimbBase>> ELSE <<hi, lo>>

\* Round a non-negative exact magnitude to 53 significant bits, ties to even.
\* num/den (0 <= num < den) is the part of the exact value below the last unit.
FRoundMag(m, num, den) ==
    LET nbits == IF m[1] > 0 THEN 28 + BitLen(m[1]) ELSE BitLen(m[2])
        d     == IF nbits > MantissaBits THEN nbits - MantissaBits ELSE 0
        unit  == Pow2(d)
        r     == m[2] % unit
        kept  == m[2] - r
        odd   == (m[2] \div unit) % 2 = 1
        twice == 2 * (r * den + num)
        half  == unit * den
        up    == twice > half \/ (twice = half /\ odd)
    IN  FNorm(m[1], IF up THEN kept + unit ELSE kept)

FRound(a) == IF FIsNeg(a) THEN FNeg(FRoundMag(FNeg(a), 0, 1)) ELSE FRoundMag(a, 0, 1)

\* a + b in binary64: the exact sum rounded to nearest, ties to even
FAdd(a, b) == FRound(FNorm(a[1] + b[1], a[2] + b[2]))

\* The binary64 value of the decimal literal c/100 (10 <= c < 400): long
\* division of c * 2^56 by 100 in digits of 14 bits, then rounding.
Literal(c) ==
    LET q0 == c \div 100
        r0 == c % 100
        d1 == (r0 * HalfLimb) \div 100
        r1 == (r0 * HalfLimb) % 100
        d2 == (r1 * HalfLimb) \div 100
        r2 == (r1 * HalfLimb) % 100
        d3 == (r2 * HalfLimb) \div 100
        r3 == (r2 * HalfLimb) % 100
        d4 == (r3 * HalfLimb) \div 100
        r4 == (r3 * HalfLimb) % 100
    IN  FRoundMag(<<q0 * LimbBase + d1 * HalfLimb + d2, d3 * HalfLimb + d4>>, r4, 100)

(***************************************************************************)
(* Input reals (sleep_hours, bmi) are only ever compared with an integer   *)
(* constant.  A finite one is held in tenths; NaN and the infinities are   *)
(* the integers below, outside the finite range.                           *)
(***************************************************************************)
NaN == 2000000001
PosInf == 2000000000
NegInf == 0 - 2000000000

IsFinite(x) == x > NegInf /\ x < PosInf

\* x < n and x > n for a float x and an integer constant n; false on NaN
RealLess(x, n) == x # NaN /\ x < 10 * n

RealGreater(x, n) == x # NaN /\ x > 10 * n

(***************************************************************************)
(* The factor contribution map: a Python dict, kept in insertion order as  *)
(* a sequence of <<label, value>> pairs with unique labels.                *)
(***************************************************************************)
HighCarb == "High-Carb Meal ( > 80g)"
BalancedMeal == "Balanced Meal Offset"
PoorSleep == "Poor Sleep ( < 6 hours)"
HighStress == "High Stress Level"
LowActivity == "Low Activity ( < 10 min)"
PostMealAerobic == "Post-Meal Aerobic Activity"
Anaerobic == "Anaerobic Activity"
MissedMetformin == "Missed Metformin Dose"
MissedInsulin == "Missed Insulin Dose"
AmplifiedBMI == "Risk amplified by BMI"
AmplifiedDuration == "Risk amplified by T2D duration"

\* label in explanation
HasKey(expl, label) == \E i \in 1..Len(expl) : expl[i][1] = label

\* explanation[label] = value
DictSet(expl, label, value) ==
    IF HasKey(expl, label)
    THEN [i \in 1..Len(expl) |-> IF expl[i][1] = label THEN <<label, value>> ELSE expl[i]]
    ELSE Append(expl, <<label, value>>)

\* risk_score += value ; explanation[label] = value
AddFactor(acc, label, value) ==
    [acc EXCEPT !.risk_score = FAdd(acc.risk_score, value),
                !.explanation = DictSet(acc.explanation, label, value)]

(***************************************************************************)
(* get_prediction_and_explanation (src/app.py), one operator per group of  *)
(* the function body.  acc carries the locals risk_score, explanation and  *)
(* carb_risk from one group to the next.                                   *)
(***************************************************************************)
EngineStart == [risk_score |-> FZero, explanation |-> << >>, carb_risk |-> FZero]

\* the weights, as the literals of the function body
carb_risk == Literal(40)
balance_offset == FNeg(Literal(10))
sleep_risk == Literal(15)
stress_risk == Literal(20)
activity_risk == Literal(15)
aerobic_offset == FNeg(Literal(20))
anaerobic_offset == FNeg(Literal(10))
metformin_risk == Literal(30)
insulin_risk == Literal(50)
bmi_amplifier == Literal(10)
duration_amplifier == Literal(10)
One == Literal(100)
HighBand == Literal(60)
ModerateBand == Literal(40)

\* 1. dietary factors
DietaryFactors(acc, l) ==
    IF l.carbs_g > 80
    THEN [AddFactor(acc, HighCarb, carb_risk) EXCEPT !.carb_risk = carb_risk]
    ELSE acc

\* "balanced meal" logic
BalancedMealOffsetMissing(acc, l) ==
    LET is_balanced_meal == l.protein_g > 15 \/ l.fat_g > 10
    IN  IF FGreater(acc.carb_risk, FZero) /\ is_balanced_meal
        THEN [acc EXCEPT !.risk_score = FAdd(acc.risk_score, balance_offset)]
        ELSE acc

BalancedMealOffset(acc, l) ==
    LET is_balanced_meal == l.protein_g > 15 \/ l.fat_g > 10
    IN  IF FGreater(acc.carb_risk, FZero) /\ is_balanced_meal
        THEN AddFactor(acc, BalancedMeal, balance_offset)
        ELSE acc

\* 2. lifestyle factors: sleep
SleepFactor(acc, l) ==
    IF RealLess(l.sleep_hours, 6)
    THEN AddFactor(acc, PoorSleep, sleep_risk)
    ELSE acc

\* stress
StressFactor(acc, l) ==
    IF l.stress_level = "high"
    THEN AddFactor(acc, HighStress, stress_risk)
    ELSE acc

\* activity: if / elif / elif
ActivityFactorIndependentIfs(acc, l) ==
    LET a1 == IF l.activity_minutes < 10 /\ ~HasKey(acc.explanation, PostMealAerobic)
              THEN AddFactor(acc, LowActivity, activity_risk) ELSE acc
        a2 == IF l.activity_type = "aerobic" /\ l.carbs_g > 50
              THEN AddFactor(a1, PostMealAerobic, aerobic_offset) ELSE a1
    IN  IF l.activity_type = "anaerobic"
        THEN AddFactor(a2, Anaerobic, anaerobic_offset) ELSE a2

\* the aerobic reward decided first, the penalty only without it
ActivityFactorRewardFirst(acc, l) ==
    LET a1 == IF l.activity_type = "aerobic" /\ l.carbs_g > 50
              THEN AddFactor(acc, PostMealAerobic, aerobic_offset) ELSE acc
    IN  IF l.activity_minutes < 10
        THEN IF ~HasKey(a1.explanation, PostMealAerobic)
             THEN AddFactor(a1, LowActivity, activity_risk) ELSE a1
        ELSE IF l.activity_type = "anaerobic" /\ ~HasKey(a1.explanation, PostMealAerobic)
             THEN AddFactor(a1, Anaerobic, anaerobic_offset) ELSE a1

ActivityFactor(acc, l) ==
    IF l.activity_minutes < 10
    THEN IF ~HasKey(acc.explanation, PostMealAerobic)
         THEN AddFactor(acc, LowActivity, activity_risk)
         ELSE acc
    ELSE IF l.activity_type = "aerobic" /\ l.carbs_g > 50
         THEN AddFactor(acc, PostMealAerobic, aerobic_offset)
         ELSE IF l.activity_type = "anaerobic"
              THEN AddFactor(acc, Anaerobic, anaerobic_offset)
              ELSE acc

\* 3. personalized clinical factors
MetforminFactor(acc, u, l) ==
    IF u.on_metformin /\ ~l.took_metformin
    THEN AddFactor(acc, MissedMetformin, metformin_risk)
    ELSE acc

InsulinFactor(acc, u, l) ==
    IF u.on_insulin /\ ~l.took_insulin
    THEN AddFactor(acc, MissedInsulin, insulin_risk)
    ELSE acc

\* 4. compounding factors
BmiAmplifier(acc, u) ==
    IF RealGreater(u.bmi, 28) /\ FGreater(acc.risk_score, FZero)
    THEN AddFactor(acc, AmplifiedBMI, bmi_amplifier)
    ELSE acc

DurationAmplifierUnguarded(acc, u) ==
    IF u.years_since_diagnosis > 5
    THEN AddFactor(acc, AmplifiedDuration, duration_amplifier)
    ELSE acc

DurationAmplifier(acc, u) ==
    IF u.years_since_diagnosis > 5 /\ FGreater(acc.risk_score, FZero)
    THEN AddFactor(acc, AmplifiedDuration, duration_amplifier)
    ELSE acc

\* the running total after the dietary, lifestyle and clinical groups
PreAmplifier(u, l) ==
    InsulinFactor(
      MetforminFactor(
        ActivityFactor(
          StressFactor(
            SleepFactor(
              BalancedMealOffset(
                DietaryFactors(EngineStart, l), l), l), l), l), u, l), u, l)

\* 5. finalize: max(0, risk_score), then min(final_risk_score, 1.0)
FMax0(x) == IF FGreater(x, FZero) THEN x ELSE FZero

FMin(x, y) == IF FLess(y, x) THEN y ELSE x

FinalizeNoCeiling(total) == FMax0(total)

Finalize(total) == FMin(FMax0(total), One)

\* returns (final_risk_score, explanation)
get_prediction_and_explanation(u, l) ==
    LET acc == DurationAmplifier(BmiAmplifier(PreAmplifier(u, l), u), u)
    IN  <<Finalize(acc.risk_score), acc.explanation>>

(***************************************************************************)
(* get_prediction_and_explanation of src/glucoflow.py, translated from    *)
(* that file group by group; the score is finalized in one expression,     *)
(* max(0, min(risk_score, 1.0)).                                           *)
(***************************************************************************)
glucoflow_EngineStart == [risk_score |-> FZero, explanation |-> << >>, carb_risk |-> FZero]

glucoflow_carb_risk == Literal(40)
glucoflow_balance_offset == FNeg(Literal(10))
glucoflow_sleep_risk == Literal(15)
glucoflow_stress_risk == Literal(20)
glucoflow_activity_risk == Literal(15)
glucoflow_aerobic_offset == FNeg(Literal(20))
glucoflow_anaerobic_offset == FNeg(Literal(10))
glucoflow_metformin_risk == Literal(30)
glucoflow_insulin_risk == Literal(50)
glucoflow_bmi_amplifier == Literal(10)
glucoflow_duration_amplifier == Literal(10)

\* 1. dietary factors
glucoflow_Dietary(acc, l) ==
    LET a1 == IF l.carbs_g > 80
              THEN [AddFactor(acc, "High-Carb Meal ( > 80g)", glucoflow_carb_risk)
                       EXCEPT !.carb_risk = glucoflow_carb_risk]
              ELSE acc
        is_balanced_meal == l.protein_g > 15 \/ l.fat_g > 10
    IN  IF FGreater(a1.carb_risk, FZero) /\ is_balanced_meal
        THEN AddFactor(a1, "Balanced Meal Offset", glucoflow_balance_offset)
        ELSE a1

\* 2. lifestyle factors
glucoflow_Lifestyle(acc, l) ==
    LET a1 == IF RealLess(l.sleep_hours, 6)
              THEN AddFactor(acc, "Poor Sleep ( < 6 hours)", glucoflow_sleep_risk)
              ELSE acc
    IN  IF l.stress_level = "high"
        THEN AddFactor(a1, "High Stress Level", glucoflow_stress_risk)
        ELSE a1

glucoflow_Activity(acc, l) ==
    IF l.activity_minutes < 10
    THEN IF ~HasKey(acc.explanation, "Post-Meal Aerobic Activity")
         THEN AddFactor(acc, "Low Activity ( < 10 min)", glucoflow_activity_risk)
         ELSE acc
    ELSE IF l.activity_type = "aerobic" /\ l.carbs_g > 50
         THEN AddFactor(acc, "Post-Meal Aerobic Activity", glucoflow_aerobic_offset)
         ELSE IF l.activity_type = "anaerobic"
              THEN AddFactor(acc, "Anaerobic Activity", glucoflow_anaerobic_offset)
              ELSE acc

\* 3. clinical factors
glucoflow_Clinical(acc, u, l) ==
    LET a1 == IF u.on_metformin /\ ~l.took_metformin
              THEN AddFactor(acc, "Missed Metformin Dose", glucoflow_metformin_risk)
              ELSE acc
    IN  IF u.on_insulin /\ ~l.took_insulin
        THEN AddFactor(a1, "Missed Insulin Dose", glucoflow_insulin_risk)
        ELSE a1

\* 4. compounding factors
glucoflow_Compounding(acc, u) ==
    LET a1 == IF RealGreater(u.bmi, 28) /\ FGreater(acc.risk_score, FZero)
              THEN AddFactor(acc, "Risk amplified by BMI", glucoflow_bmi_amplifier)
              ELSE acc
    IN  IF u.years_since_diagnosis > 5 /\ FGreater(a1.risk_score, FZero)
        THEN AddFactor(a1, "Risk amplified by T2D duration", glucoflow_duration_amplifier)
        ELSE a1

\* 5. finalize score
glucoflow_ceiling == Literal(100)

glucoflow_FinalizeNoFloor(total) == FMin(total, glucoflow_ceiling)

glucoflow_Finalize(total) == FMax0(FMin(total, glucoflow_ceiling))

glucoflow_get_prediction_and_explanation(u, l) ==
    LET acc == glucoflow_Compounding(
                 glucoflow_Clinical(
                   glucoflow_Activity(
                     glucoflow_Lifestyle(
                       glucoflow_Dietary(glucoflow_EngineStart, l), l), l), u, l), u)
    IN  <<glucoflow_Finalize(acc.risk_score), acc.explanation>>

(***************************************************************************)
(* generate_personalized_feedback (src/app.py).  A message is identified   *)
(* by the branch that returns it; the quantitative walk recommendation     *)
(* also carries the two numbers its text states.                           *)
(***************************************************************************)
Message(id) == [id |-> id, carbs_g |-> 0, minutes |-> 0]

NoMessage == Message("none")
InsulinCritical == Message("critical_insulin")
MetforminHighPriority == Message("high_priority_metformin")
HighRiskStress == Message("high_risk_stress")
ModerateCarbPairing == Message("moderate_carb_pairing")
ModerateSleep == Message("moderate_sleep")
LowRiskStress == Message("low_risk_despite_stress")
PerfectStrategy == Message("perfect_strategy")
AllClear == Message("all_clear")
CatchAll == Message("catch_all")

HighRiskWalk(carbs_g, minutes) == [id |-> "high_risk_walk", carbs_g |-> carbs_g, minutes |-> minutes]

CARB_BASELINE == 60

CARB_TO_WALK_RATIO == 1

Max(a, b) == IF b > a THEN b ELSE a

Min(a, b) == IF b < a THEN b ELSE a

\* int(excess_carbs * 1.0), then max(15, min(., 45))
WalkMinutesUnclamped(carbs_g) == (carbs_g - CARB_BASELINE) * CARB_TO_WALK_RATIO

WalkMinutes(carbs_g) ==
    Max(15, Min((carbs_g - CARB_BASELINE) * CARB_TO_WALK_RATIO, 45))

\* 2. the body of "if risk_score > 0.6"; NoMessage when it falls through
HighRiskFeedbackNoStress(l, expl) ==
    IF HasKey(expl, HighCarb) /\ ~HasKey(expl, PostMealAerobic)
    THEN HighRiskWalk(l.carbs_g, WalkMinutes(l.carbs_g))
    ELSE NoMessage

HighRiskFeedback(l, expl) ==
    IF HasKey(expl, HighCarb) /\ ~HasKey(expl, PostMealAerobic)
    THEN HighRiskWalk(l.carbs_g, WalkMinutes(l.carbs_g))
    ELSE IF HasKey(expl, HighStress)
         THEN HighRiskStress
         ELSE NoMessage

\* 3. the body of "elif risk_score > 0.4"
ModerateRiskFeedbackNoOffsetTest(expl) ==
    IF HasKey(expl, HighCarb)
    THEN ModerateCarbPairing
    ELSE IF HasKey(expl, PoorSleep)
         THEN ModerateSleep
         ELSE NoMessage

ModerateRiskFeedback(expl) ==
    IF HasKey(expl, HighCarb) /\ ~HasKey(expl, BalancedMeal)
    THEN ModerateCarbPairing
    ELSE IF HasKey(expl, PoorSleep)
         THEN ModerateSleep
         ELSE NoMessage

\* 4. the body of the final "else"
LowRiskFeedbackAerobicFirst(expl) ==
    IF HasKey(expl, PostMealAerobic)
    THEN PerfectStrategy
    ELSE IF HasKey(expl, HighStress)
         THEN LowRiskStress
         ELSE AllClear

LowRiskFeedback(expl) ==
    IF HasKey(expl, HighStress)
    THEN LowRiskStress
    ELSE IF HasKey(expl, PostMealAerobic)
         THEN PerfectStrategy
         ELSE AllClear

\* the score bands and the default catch-all
BandFeedback(l, score, expl) ==
    LET m == IF FGreater(score, HighBand)
             THEN HighRiskFeedback(l, expl)
             ELSE IF FGreater(score, ModerateBand)
                  THEN ModerateRiskFeedback(expl)
                  ELSE LowRiskFeedback(expl)
    IN  IF m = NoMessage THEN CatchAll ELSE m

\* 1. critical and high-priority feedback, then the bands
FeedbackMetforminFirst(u, l, score, expl) ==
    IF HasKey(expl, MissedMetformin)
    THEN MetforminHighPriority
    ELSE IF HasKey(expl, MissedInsulin)
         THEN InsulinCritical
         ELSE BandFeedback(l, score, expl)

generate_personalized_feedback(u, l, score, expl) ==
    IF HasKey(expl, MissedInsulin)
    THEN InsulinCritical
    ELSE IF HasKey(expl, MissedMetformin)
         THEN MetforminHighPriority
         ELSE BandFeedback(l, score, expl)

(***************************************************************************)
(* Profiles and logs as the engine receives them (already constructed).    *)
(***************************************************************************)
CarbsValues == {0, 70, 80, 90, 106}
ProteinValues == {0, 16}
FatValues == {0, 11}
SleepValues == {55, 70, 80}
StressValues == {"low", "medium", "high"}
ActivityMinutesValues == {0, 20, 30}
ActivityTypes == {"none", "aerobic", "anaerobic"}
BmiValues == {250, 290}
YearsValues == {1, 6}

Profiles ==
    [name : {"ann"}, age : {30}, diagnosis_type : {"Type 2"},
     years_since_diagnosis : YearsValues, bmi : BmiValues,
     on_metformin : BOOLEAN, on_insulin : BOOLEAN, logs : {<< >>}]

DailyLogs ==
    [sleep_hours : SleepValues, sleep_quality : {"Good"},
     carbs_g : CarbsValues, protein_g : ProteinValues, fat_g : FatValues,
     activity_minutes : ActivityMinutesValues, activity_type : ActivityTypes,
     stress_level : StressValues,
     took_metformin : BOOLEAN, took_insulin : BOOLEAN]

NoProfile ==
    [name |-> "", age |-> 0, diagnosis_type |-> "", years_since_diagnosis |-> 0,
     bmi |-> 0, on_metformin |-> FALSE, on_insulin |-> FALSE, logs |-> << >>]

NoLog ==
    [sleep_hours |-> 0, sleep_quality |-> "", carbs_g |-> 0, protein_g |-> 0,
     fat_g |-> 0, activity_minutes |-> 0, activity_type |-> "", stress_level |-> "",
     took_metformin |-> FALSE, took_insulin |-> FALSE]

(***************************************************************************)
(* SpecEngine: the caller's sequence for one (profile, log) pair:          *)
(*   (risk, reason) = get_prediction_and_explanation(current_user, new_log)*)
(*   suggestion = generate_personalized_feedback(current_user, new_log,    *)
(*                                               risk, reason)             *)
(***************************************************************************)
ApiIdle ==
    /\ USER_DATABASE = [n \in {} |-> NoProfile]
    /\ response = [status |-> 0, risk_score |-> FZero, explanation |-> << >>,
                   suggestion |-> NoMessage]
    /\ core_called = FALSE

InitEngine ==
    /\ pc = "call"
    /\ user \in Profiles
    /\ log \in DailyLogs
    /\ risk_score = FZero
    /\ explanation = << >>
    /\ suggestion = NoMessage
    /\ ApiIdle

Evaluate ==
    /\ pc = "call"
    /\ LET r == get_prediction_and_explanation(user, log)
       IN  /\ risk_score' = r[1]
           /\ explanation' = r[2]
    /\ pc' = "scored"
    /\ UNCHANGED <<user, log, suggestion, apiVars>>

Feedback ==
    /\ pc = "scored"
    /\ suggestion' = generate_personalized_feedback(user, log, risk_score, explanation)
    /\ pc' = "done"
    /\ UNCHANGED <<user, log, risk_score, explanation, apiVars>>

\* the result is handed back; the caller holds no pair
Return ==
    /\ pc = "done"
    /\ pc' = "idle"
    /\ user' = NoProfile
    /\ log' = NoLog
    /\ risk_score' = FZero
    /\ explanation' = << >>
    /\ suggestion' = NoMessage
    /\ UNCHANGED apiVars

\* the caller supplies the next pair
Call ==
    /\ pc = "idle"
    /\ pc' = "call"
    /\ user' \in Profiles
    /\ log' \in DailyLogs
    /\ UNCHANGED <<risk_score, explanation, suggestion, apiVars>>

NextEngine == Evaluate \/ Feedback \/ Return \/ Call

SpecEngine == InitEngine /\ [][NextEngine]_vars

(***************************************************************************)
(* Properties of the engine and of the feedback generator (SpecEngine).    *)
(***************************************************************************)
Scored == pc \in {"scored", "done"}

NoMissedDose == ~HasKey(explanation, MissedInsulin) /\ ~HasKey(explanation, MissedMetformin)

InHighBand == FGreater(risk_score, HighBand)

InModerateBand == FGreater(risk_score, ModerateBand) /\ ~FGreater(risk_score, HighBand)

InLowBand == ~FGreater(risk_score, ModerateBand)

\* C1: the score returned by get_prediction_and_explanation lies in the
\* closed interval [0.0, 1.0] for every profile and log, in src/app.py and
\* in the copy of src/glucoflow.py.
C1_ScoreInUnitInterval ==
    Scored =>
        /\ ~FLess(risk_score, FZero) /\ ~FGreater(risk_score, One)
        /\ LET g == glucoflow_get_prediction_and_explanation(user, log)[1]
           IN  ~FLess(g, FZero) /\ ~FGreater(g, One)

\* the ceiling is what bounds the score: positive factors, an offset and both
\* amplifiers add up to more than 1
C1_Witness ==
    /\ pc = "scored"
    /\ risk_score = One
    /\ HasKey(explanation, BalancedMeal)
    /\ HasKey(explanation, AmplifiedBMI)
    /\ HasKey(explanation, AmplifiedDuration)
    /\ HasKey(explanation, MissedInsulin)

\* sum(explanation.values()), added left to right in insertion order
RECURSIVE SumValues(_)
SumValues(expl) ==
    IF Len(expl) = 0 THEN FZero
    ELSE FAdd(SumValues(SubSeq(expl, 1, Len(expl) - 1)), expl[Len(expl)][2])

Clamp01(x) == IF FLess(x, FZero) THEN FZero ELSE IF FGreater(x, One) THEN One ELSE x

\* C2: the returned score equals the sum of all values of the returned
\* factor map clamped to [0, 1]; the map has one entry per label.
C2_ScoreIsClampedSum ==
    Scored =>
        /\ risk_score = Clamp01(SumValues(explanation))
        /\ \A i, j \in 1..Len(explanation) :
               explanation[i][1] = explanation[j][1] => i = j

\* an offset is part of the sum and the sum is not clamped
C2_Witness ==
    /\ pc = "scored"
    /\ HasKey(explanation, BalancedMeal)
    /\ HasKey(explanation, PoorSleep)
    /\ FGreater(risk_score, FZero)
    /\ FLess(risk_score, One)

\* C3: when the running total after the dietary, lifestyle and clinical
\* groups is <= 0, neither amplifier label is in the factor map, whatever
\* bmi and years_since_diagnosis are, and the final score is 0.
C3_AmplifiersNeedPositiveTotal ==
    Scored /\ ~FGreater(PreAmplifier(user, log).risk_score, FZero) =>
        /\ ~HasKey(explanation, AmplifiedBMI)
        /\ ~HasKey(explanation, AmplifiedDuration)
        /\ risk_score = FZero

\* a negative pre-amplifier total for a profile that qualifies for both
C3_Witness ==
    /\ pc = "scored"
    /\ FLess(PreAmplifier(user, log).risk_score, FZero)
    /\ RealGreater(user.bmi, 28)
    /\ user.years_since_diagnosis > 5

ActivityLabels == {LowActivity, PostMealAerobic, Anaerobic}

\* C4: the factor map of one evaluation holds at most one of the three
\* activity labels; "Low Activity" and "Post-Meal Aerobic Activity" never
\* appear together.
C4_OneActivityLabel ==
    Scored =>
        /\ Cardinality({a \in ActivityLabels : HasKey(explanation, a)}) <= 1
        /\ ~(HasKey(explanation, LowActivity) /\ HasKey(explanation, PostMealAerobic))

\* under ten minutes of aerobic activity after a carb load: the penalty, alone
C4_Witness ==
    /\ pc = "scored"
    /\ log.activity_minutes < 10
    /\ log.activity_type = "aerobic"
    /\ log.carbs_g > 50
    /\ HasKey(explanation, LowActivity)

\* C5: the insulin-critical message is returned whenever "Missed Insulin
\* Dose" is in the map, also when "Missed Metformin Dose" is; the metformin
\* message exactly when metformin is missed and insulin is not.
C5_InsulinOutranksMetformin ==
    pc = "done" =>
        /\ HasKey(explanation, MissedInsulin) => suggestion = InsulinCritical
        /\ suggestion = MetforminHighPriority <=>
               (HasKey(explanation, MissedMetformin) /\ ~HasKey(explanation, MissedInsulin))

\* both doses missed
C5_Witness ==
    /\ pc = "done"
    /\ HasKey(explanation, MissedInsulin)
    /\ HasKey(explanation, MissedMetformin)
    /\ suggestion = InsulinCritical

\* C6: in the high band with no missed dose, "High-Carb Meal" present and
\* "Post-Meal Aerobic Activity" absent, the message is the walk
\* recommendation stating carbs_g and (carbs_g - 60) clamped to [15, 45].
C6_WalkMinutesClamped ==
    (/\ pc = "done"
     /\ NoMissedDose
     /\ InHighBand
     /\ HasKey(explanation, HighCarb)
     /\ ~HasKey(explanation, PostMealAerobic)) =>
        LET excess == log.carbs_g - 60
        IN  /\ suggestion.id = "high_risk_walk"
            /\ suggestion.carbs_g = log.carbs_g
            /\ suggestion.minutes =
                   (IF excess < 15 THEN 15 ELSE IF excess > 45 THEN 45 ELSE excess)
            /\ suggestion.minutes \in 15..45

\* more than 45 excess grams: the ceiling of the recommendation
C6_Witness ==
    /\ pc = "done"
    /\ suggestion.id = "high_risk_walk"
    /\ log.carbs_g - 60 > 45
    /\ suggestion.minutes = 45

ScenarioA ==
    /\ log.carbs_g = 90 /\ log.protein_g = 0 /\ log.fat_g = 0
    /\ log.sleep_hours = 70 /\ log.stress_level = "low"
    /\ log.activity_minutes = 0 /\ log.activity_type = "none"
    /\ ~user.on_metformin /\ ~user.on_insulin
    /\ user.bmi = 250 /\ user.years_since_diagnosis = 1

\* C7: in the moderate band with no missed dose, 4a is returned if
\* "High-Carb Meal" is present and "Balanced Meal Offset" absent; otherwise
\* 4b if "Poor Sleep" is present.  Scenario A gives High-Carb Meal 0.40 and
\* Low Activity 0.15, score 0.55 and message 4a.
C7_ModerateBand ==
    /\ (pc = "done" /\ NoMissedDose /\ InModerateBand) =>
           IF HasKey(explanation, HighCarb) /\ ~HasKey(explanation, BalancedMeal)
           THEN suggestion = ModerateCarbPairing
           ELSE HasKey(explanation, PoorSleep) => suggestion = ModerateSleep
    /\ (pc = "done" /\ ScenarioA) =>
           /\ explanation = << <<HighCarb, Literal(40)>>, <<LowActivity, Literal(15)>> >>
           /\ risk_score = Literal(55)
           /\ suggestion = ModerateCarbPairing

\* a balanced high-carb meal after poor sleep: 4a does not apply, 4b does
C7_Witness ==
    /\ pc = "done"
    /\ NoMissedDose
    /\ InModerateBand
    /\ HasKey(explanation, HighCarb)
    /\ HasKey(explanation, BalancedMeal)
    /\ HasKey(explanation, PoorSleep)
    /\ suggestion = ModerateSleep

ScenarioC ==
    /\ log.carbs_g = 70 /\ log.protein_g = 0 /\ log.fat_g = 0
    /\ log.activity_minutes = 30 /\ log.activity_type = "aerobic"
    /\ log.stress_level = "low" /\ log.sleep_hours = 80
    /\ ~user.on_metformin /\ ~user.on_insulin

ScenarioD ==
    /\ log.carbs_g = 0 /\ log.sleep_hours = 80
    /\ log.activity_minutes = 20 /\ log.activity_type = "none"
    /\ log.stress_level = "high"
    /\ ~user.on_metformin /\ ~user.on_insulin
    /\ user.bmi = 250 /\ user.years_since_diagnosis = 1

\* C8: in the low band with no missed dose the message is 5a if "High
\* Stress Level" is present, else 5b if "Post-Meal Aerobic Activity" is,
\* else 5c; 3b is never returned when score <= 0.6.  Scenario C gives the
\* single factor Post-Meal Aerobic Activity -0.20, score 0 and 5b;
\* Scenario D gives score 0.20 and 5a.
C8_LowBand ==
    /\ (pc = "done" /\ NoMissedDose /\ InLowBand) =>
           suggestion = (IF HasKey(explanation, HighStress) THEN LowRiskStress
                         ELSE IF HasKey(explanation, PostMealAerobic) THEN PerfectStrategy
                         ELSE AllClear)
    /\ (pc = "done" /\ suggestion = HighRiskStress) => InHighBand
    /\ (pc = "done" /\ ScenarioC) =>
           /\ explanation = << <<PostMealAerobic, FNeg(Literal(20))>> >>
           /\ risk_score = FZero
           /\ suggestion = PerfectStrategy
    /\ (pc = "done" /\ ScenarioD) =>
           /\ risk_score = Literal(20)
           /\ suggestion = LowRiskStress

\* high stress walked off after a carb load: 5a outranks 5b
C8_Witness ==
    /\ pc = "done"
    /\ NoMissedDose
    /\ InLowBand
    /\ HasKey(explanation, HighStress)
    /\ HasKey(explanation, PostMealAerobic)
    /\ suggestion = LowRiskStress

HighBandFallThrough(expl) ==
    /\ ~HasKey(expl, MissedInsulin)
    /\ ~HasKey(expl, MissedMetformin)
    /\ ~(HasKey(expl, HighCarb) /\ ~HasKey(expl, PostMealAerobic))
    /\ ~HasKey(expl, HighStress)

ModerateBandFallThrough(expl) ==
    /\ ~HasKey(expl, MissedInsulin)
    /\ ~HasKey(expl, MissedMetformin)
    /\ ~(HasKey(expl, HighCarb) /\ ~HasKey(expl, BalancedMeal))
    /\ ~HasKey(expl, PoorSleep)

\* a profile and a log whose evaluation is in the high band with neither
\* 3a nor 3b applicable
EngineReachesHighBandFallThrough(u, l) ==
    LET r == get_prediction_and_explanation(u, l)
    IN  FGreater(r[1], HighBand) /\ HighBandFallThrough(r[2])

\* C9 as stated: the catch-all is returned only when a band matched but none
\* of its inner branches did, and the caller can supply a profile and a log
\* for which that happens in the high-risk band.
C9_CatchAllReachableInHighBand ==
    /\ (pc = "done" /\ suggestion = CatchAll) =>
           \/ InHighBand /\ HighBandFallThrough(explanation)
           \/ InModerateBand /\ ModerateBandFallThrough(explanation)
    /\ pc = "idle" =>
           \E u \in Profiles, l \in DailyLogs : EngineReachesHighBandFallThrough(u, l)

\* C9 (amended): the catch-all is returned only when a band matched but none
\* of its inner branches did; for engine outputs that band is always the
\* moderate one, because every engine output in the high band with no missed
\* dose has 3a or 3b applicable.
C9_CatchAllOnlyInModerateBand ==
    pc = "done" =>
        /\ suggestion = CatchAll =>
               InModerateBand /\ ModerateBandFallThrough(explanation)
        /\ InHighBand => ~HighBandFallThrough(explanation)

\* a balanced high-carb meal under high stress after a full night
C9_Witness ==
    /\ pc = "done"
    /\ suggestion = CatchAll
    /\ InModerateBand
    /\ HasKey(explanation, HighCarb)
    /\ HasKey(explanation, BalancedMeal)
    /\ HasKey(explanation, HighStress)

\* the entry <<label, value>> is in the map
HasEntry(expl, label, value) == \E i \in 1..Len(expl) : expl[i] = <<label, value>>

\* C14: the guard on the low-activity penalty never takes effect: "Low
\* Activity" (+0.15) is in the factor map if and only if activity_minutes
\* < 10, for every activity_type and carbs_g, in both copies of the engine;
\* a log with activity_minutes < 10, type "aerobic" and carbs_g > 50 gets
\* the penalty and no "Post-Meal Aerobic Activity" reward.
C14_LowActivityIffUnderTenMinutes ==
    Scored =>
        LET g == glucoflow_get_prediction_and_explanation(user, log)[2]
        IN  /\ HasKey(explanation, LowActivity) <=> log.activity_minutes < 10
            /\ HasKey(g, LowActivity) <=> log.activity_minutes < 10
            /\ log.activity_minutes < 10 =>
                   /\ HasEntry(explanation, LowActivity, activity_risk)
                   /\ HasEntry(g, LowActivity, activity_risk)
                   /\ ~HasKey(explanation, PostMealAerobic)
                   /\ ~HasKey(g, PostMealAerobic)

\* a few minutes of aerobic activity after a balanced high-carb meal
C14_Witness ==
    /\ pc = "scored"
    /\ log.activity_minutes < 10
    /\ log.activity_type = "aerobic"
    /\ log.carbs_g > 80
    /\ HasEntry(explanation, LowActivity, activity_risk)
    /\ HasKey(explanation, BalancedMeal)
    /\ ~HasKey(explanation, PostMealAerobic)

\* C15: the two copies of the engine agree: for every profile and log the
\* function of src/app.py and the function of src/glucoflow.py return the
\* same score and the same factor map (labels, values, insertion order).
C15_EnginesAgree ==
    Scored =>
        <<risk_score, explanation>> = glucoflow_get_prediction_and_explanation(user, log)

\* a total below zero, which the one floors before and the other after the
\* ceiling
C15_Witness ==
    /\ pc = "scored"
    /\ risk_score = FZero
    /\ FLess(SumValues(explanation), FZero)
    /\ HasKey(explanation, PoorSleep)
    /\ HasKey(explanation, PostMealAerobic)

(***************************************************************************)
(* Request bodies.  A JSON value is a record [t, n, s]: its type, its      *)
(* number (a float in tenths, or NaN / PosInf / NegInf) and its string.    *)
(* data.get(key) of an absent key and a JSON null are both None.           *)
(***************************************************************************)
JNull == [t |-> "null", n |-> 0, s |-> ""]

JInt(n) == [t |-> "int", n |-> n, s |-> ""]

JFloat(x) == [t |-> "float", n |-> x, s |-> ""]

JBool(b) == [t |-> "bool", n |-> IF b THEN 1 ELSE 0, s |-> ""]

JStr(s) == [t |-> "str", n |-> 0, s |-> s]

\* float(s) for a string: the value in tenths, or Invalid (ValueError)
Invalid == 0 - 2000000001

ParseFloat(s) ==
    CASE s = "90"    -> 900
      [] s = "6"     -> 60
      [] s = "5.5"   -> 55
      [] s = "nan"   -> NaN
      [] s = "inf"   -> PosInf
      [] s = "1e999" -> PosInf
      [] OTHER       -> Invalid

\* float(value): [err, x]; err is "" or the exception raised
ToFloat(value) ==
    CASE value.t = "null"  -> [err |-> "TypeError", x |-> 0]
      [] value.t = "int"   -> [err |-> "", x |-> 10 * value.n]
      [] value.t = "bool"  -> [err |-> "", x |-> 10 * value.n]
      [] value.t = "float" -> [err |-> "", x |-> value.n]
      [] value.t = "str"   -> IF ParseFloat(value.s) = Invalid
                              THEN [err |-> "ValueError", x |-> 0]
                              ELSE [err |-> "", x |-> ParseFloat(value.s)]

\* int(x) of a finite float in tenths: truncation toward zero
Trunc(x) == IF x >= 0 THEN x \div 10 ELSE 0 - ((0 - x) \div 10)

\* safe_int: int(float(value)), default on ValueError and TypeError.
\* int(nan) is a ValueError; int(inf) is an OverflowError, which is not caught.
safe_int(value, default) ==
    LET f == ToFloat(value)
    IN  IF f.err # "" THEN [raised |-> FALSE, v |-> default]
        ELSE IF f.x = NaN THEN [raised |-> FALSE, v |-> default]
        ELSE IF ~IsFinite(f.x) THEN [raised |-> TRUE, v |-> 0]
        ELSE [raised |-> FALSE, v |-> Trunc(f.x)]

\* safe_float: float(value), default (in tenths) on ValueError and TypeError
safe_float(value, default) ==
    LET f == ToFloat(value)
    IN  IF f.err # "" THEN default ELSE f.x

\* str(value)
PyStr(value) ==
    CASE value.t = "null"  -> "None"
      [] value.t = "int"   -> ToString(value.n)
      [] value.t = "bool"  -> IF value.n = 1 THEN "True" ELSE "False"
      [] value.t = "float" -> IF value.n = NaN THEN "nan"
                              ELSE IF value.n = PosInf THEN "inf"
                              ELSE IF value.n = NegInf THEN "-inf"
                              ELSE ToString(Trunc(value.n)) \o "." \o ToString(value.n % 10)
      [] value.t = "str"   -> value.s

\* s.lower()
Lower(s) ==
    CASE s = "None"  -> "none"
      [] s = "True"  -> "true"
      [] s = "False" -> "false"
      [] s = "Yes"   -> "yes"
      [] s = "High"  -> "high"
      [] OTHER       -> s

\* safe_bool: str(value).lower() in ['true', 't', '1', 'yes', 'y']
safe_bool(value) == Lower(PyStr(value)) \in {"true", "t", "1", "yes", "y"}

\* bool(value), as tested by "not value"
TruthyUnlessNone(value) == value.t # "null"

Truthy(value) ==
    CASE value.t = "null"  -> FALSE
      [] value.t = "str"   -> value.s # ""
      [] OTHER             -> value.n # 0

\* UserProfile.__init__: the profile, or raised when a conversion raises
UserProfileInit(data) ==
    LET age   == safe_int(data.age, 30)
        years == safe_int(data.years_since_diagnosis, 0)
    IN  [raised |-> age.raised \/ years.raised,
         obj |-> [name |-> PyStr(data.name),
                  age |-> age.v,
                  diagnosis_type |-> PyStr(data.diagnosis_type),
                  years_since_diagnosis |-> years.v,
                  bmi |-> safe_float(data.bmi, 250),
                  on_metformin |-> safe_bool(data.on_metformin),
                  on_insulin |-> safe_bool(data.on_insulin),
                  logs |-> << >>]]

\* DailyLog.__init__ (date, the day of the request, is not modelled)
DailyLogInit(data) ==
    LET carbs   == safe_int(data.carbs_g, 0)
        protein == safe_int(data.protein_g, 0)
        fat     == safe_int(data.fat_g, 0)
        minutes == safe_int(data.activity_minutes, 0)
    IN  [raised |-> carbs.raised \/ protein.raised \/ fat.raised \/ minutes.raised,
         obj |-> [sleep_hours |-> safe_float(data.sleep_hours, 0),
                  sleep_quality |-> PyStr(data.sleep_quality),
                  carbs_g |-> carbs.v,
                  protein_g |-> protein.v,
                  fat_g |-> fat.v,
                  activity_minutes |-> minutes.v,
                  activity_type |-> PyStr(data.activity_type),
                  stress_level |-> PyStr(data.stress_level),
                  took_metformin |-> safe_bool(data.took_metformin),
                  took_insulin |-> safe_bool(data.took_insulin)]]

(***************************************************************************)
(* Spec: the Flask server.  USER_DATABASE maps a name to its UserProfile;  *)
(* response is the reply to the last request and core_called tells whether *)
(* the handler of that request ran get_prediction_and_explanation and      *)
(* generate_personalized_feedback.                                         *)
(***************************************************************************)
MaxLogs == 2

OnboardRequests ==
    [name : {JStr("ann"), JInt(7), JStr(""), JNull},
     age : {JInt(40)},
     diagnosis_type : {JStr("Type 2")},
     years_since_diagnosis : {JStr("6"), JStr("inf")},
     bmi : {JFloat(300), JStr("abc")},
     on_metformin : {JNull},
     on_insulin : {JBool(TRUE)}]

AddLogRequests ==
    [user_name : {JStr("ann"), JStr("7"), JInt(7), JNull},
     sleep_hours : {JFloat(70)},
     sleep_quality : {JStr("Good")},
     carbs_g : {JInt(90), JStr(""), JStr("1e999")},
     protein_g : {JNull},
     fat_g : {JNull},
     activity_minutes : {JInt(30)},
     activity_type : {JStr("aerobic")},
     stress_level : {JStr("high")},
     took_metformin : {JNull},
     took_insulin : {JStr("Yes")}]

Reply(status) ==
    [status |-> status, risk_score |-> FZero, explanation |-> << >>,
     suggestion |-> NoMessage]

\* key in USER_DATABASE: the keys are strings, which only a string equals
InDatabase(key) == key.t = "str" /\ key.s \in DOMAIN USER_DATABASE

\* USER_DATABASE[key] = profile
DatabaseSet(db, key, profile) ==
    [n \in DOMAIN db \cup {key} |-> IF n = key THEN profile ELSE db[n]]

Init ==
    /\ USER_DATABASE = [n \in {} |-> NoProfile]
    /\ response = Reply(0)
    /\ core_called = FALSE
    /\ pc = "serving"
    /\ user = NoProfile
    /\ log = NoLog
    /\ risk_score = FZero
    /\ explanation = << >>
    /\ suggestion = NoMessage

\* POST /onboard
onboard_user(data) ==
    /\ IF ~Truthy(data.name)
       THEN /\ response' = Reply(400)
            /\ UNCHANGED USER_DATABASE
       ELSE LET u == UserProfileInit(data)
            IN  IF u.raised
                THEN /\ response' = Reply(500)
                     /\ UNCHANGED USER_DATABASE
                ELSE /\ USER_DATABASE' = DatabaseSet(USER_DATABASE, u.obj.name, u.obj)
                     /\ response' = Reply(201)
    /\ core_called' = FALSE
    /\ UNCHANGED engineVars

\* POST /add_log
add_log_and_predict(data) ==
    /\ IF ~Truthy(data.user_name)
       THEN /\ response' = Reply(400)
            /\ core_called' = FALSE
            /\ UNCHANGED USER_DATABASE
       ELSE IF ~InDatabase(data.user_name)
       THEN /\ response' = Reply(404)
            /\ core_called' = FALSE
            /\ UNCHANGED USER_DATABASE
       ELSE LET current_user == USER_DATABASE[data.user_name.s]
                new_log == DailyLogInit(data)
            IN  IF new_log.raised
                THEN /\ response' = Reply(500)
                     /\ core_called' = FALSE
                     /\ UNCHANGED USER_DATABASE
                ELSE LET appended == [current_user EXCEPT
                                          !.logs = Append(@, new_log.obj)]
                         r == get_prediction_and_explanation(appended, new_log.obj)
                     IN  /\ Len(current_user.logs) < MaxLogs
                         /\ USER_DATABASE' =
                                [USER_DATABASE EXCEPT ![data.user_name.s] = appended]
                         /\ response' =
                                [status |-> 200, risk_score |-> r[1],
                                 explanation |-> r[2],
                                 suggestion |->
                                     generate_personalized_feedback(
                                         appended, new_log.obj, r[1], r[2])]
                         /\ core_called' = TRUE
    /\ UNCHANGED engineVars

Onboard == \E data \in OnboardRequests : onboard_user(data)

AddLog == \E data \in AddLogRequests : add_log_and_predict(data)

Next == Onboard \/ AddLog

Spec == Init /\ [][Next]_vars

(***************************************************************************)
(* Properties of the server (Spec).                                        *)
(***************************************************************************)
IsPrefix(a, b) == Len(a) <= Len(b) /\ SubSeq(b, 1, Len(a)) = a

\* C10: over any sequence of /onboard and /add_log requests a profile once
\* created is never deleted and its logs only grow by appending: the logs
\* held for a name before a request are a prefix of the logs held after it,
\* also when /onboard is called again with a name that already exists.
C10_LogsAppendOnly ==
    [][\A n \in DOMAIN USER_DATABASE :
           /\ n \in DOMAIN USER_DATABASE'
           /\ IsPrefix(USER_DATABASE[n].logs, USER_DATABASE'[n].logs)]_vars

\* the field is absent or null, or the empty string
MissingOrEmpty(value) == value = JNull \/ value = JStr("")

\* no key of USER_DATABASE equals the value
NoSuchUser(value) == ~\E n \in DOMAIN USER_DATABASE : value = JStr(n)

Rejected(status) ==
    /\ response'.status = status
    /\ ~core_called'
    /\ USER_DATABASE' = USER_DATABASE

C12_ConstructionNeverAborts == response.status # 500

(***************************************************************************)
(* generate_personalized_feedback of src/glucoflow.py.  Its messages hold  *)
(* no value of the log.                                                    *)
(***************************************************************************)
glucoflow_stress_band == Literal(60)
glucoflow_high_band == Literal(70)
glucoflow_moderate_band == Literal(40)

glucoflow_CatchAll == Message("glucoflow_be_mindful")

\* if risk_score > 0.7 / elif risk_score > 0.4 / elif aerobic / else, and the
\* return after the chain for a branch that returned nothing
glucoflow_BandFeedback(score, expl) ==
    IF FGreater(score, glucoflow_high_band)
    THEN IF HasKey(expl, "High-Carb Meal ( > 80g)") /\ HasKey(expl, "Low Activity ( < 10 min)")
         THEN Message("glucoflow_high_risk_combination")
         ELSE IF HasKey(expl, "High-Carb Meal ( > 80g)") /\ HasKey(expl, "Poor Sleep ( < 6 hours)")
              THEN Message("glucoflow_high_risk_poor_sleep")
              ELSE glucoflow_CatchAll
    ELSE IF FGreater(score, glucoflow_moderate_band)
    THEN IF HasKey(expl, "High-Carb Meal ( > 80g)") /\ ~HasKey(expl, "Balanced Meal Offset")
         THEN Message("glucoflow_moderate_unbalanced_meal")
         ELSE IF HasKey(expl, "High-Carb Meal ( > 80g)")
              THEN Message("glucoflow_moderate_balanced_meal")
              ELSE IF HasKey(expl, "Poor Sleep ( < 6 hours)")
                   THEN Message("glucoflow_moderate_poor_sleep")
                   ELSE glucoflow_CatchAll
    ELSE IF HasKey(expl, "Post-Meal Aerobic Activity")
         THEN Message("glucoflow_fantastic_work")
         ELSE Message("glucoflow_great_job")

glucoflow_generate_personalized_feedback(u, l, score, expl) ==
    IF HasKey(expl, "Missed Insulin Dose")
    THEN Message("glucoflow_critical_insulin")
    ELSE IF HasKey(expl, "Missed Metformin Dose")
    THEN Message("glucoflow_high_priority_metformin")
    ELSE IF HasKey(expl, "High Stress Level") /\ FGreater(score, glucoflow_stress_band)
    THEN Message("glucoflow_high_stress")
    ELSE glucoflow_BandFeedback(score, expl)

(***************************************************************************)
(* The data classes of src/glucoflow.py, built with its own copies of      *)
(* safe_int, safe_float and safe_bool (lines 5-18, the same conversions).  *)
(***************************************************************************)
glucoflow_UserProfile(name, age, diagnosis_type, years_since_diagnosis, bmi, on_metformin, on_insulin) ==
    [name |-> PyStr(name),
     age |-> safe_int(age, 30).v,
     diagnosis_type |-> PyStr(diagnosis_type),
     years_since_diagnosis |-> safe_int(years_since_diagnosis, 0).v,
     bmi |-> safe_float(bmi, 250),
     on_metformin |-> safe_bool(on_metformin),
     on_insulin |-> safe_bool(on_insulin),
     logs |-> << >>]

glucoflow_DailyLog(form) ==
    [sleep_hours |-> safe_float(form.sleep_hours, 0),
     sleep_quality |-> PyStr(form.sleep_quality),
     carbs_g |-> safe_int(form.carbs_g, 0).v,
     protein_g |-> safe_int(form.protein_g, 0).v,
     fat_g |-> safe_int(form.fat_g, 0).v,
     activity_minutes |-> safe_int(form.activity_minutes, 0).v,
     activity_type |-> PyStr(form.activity_type),
     stress_level |-> PyStr(form.stress_level),
     took_metformin |-> safe_bool(form.took_metformin),
     took_insulin |-> safe_bool(form.took_insulin)]

(***************************************************************************)
(* SpecGlucoflow: the Streamlit front end of src/glucoflow.py.  user is    *)
(* st.session_state.user_profile (NoProfile for None) and pc the page the  *)
(* script draws: "onboarding", "dashboard", or "result" for the dashboard  *)
(* of the run in which the log form was submitted, where log, risk_score,  *)
(* explanation and suggestion are new_log, risk, reason and suggestion.    *)
(* The widgets return values of their own types within their own ranges.   *)
(***************************************************************************)
\* name.strip()
Strip(s) ==
    CASE s = "  "   -> ""
      [] s = " bo " -> "bo"
      [] OTHER      -> s

OnboardingForms ==
    [name : {JStr(""), JStr("  "), JStr(" bo ")},
     age : {JInt(30)},
     bmi : {JFloat(250), JFloat(290)},
     diagnosis : {JStr("Type 2 Diabetes")},
     years_since_diagnosis : {JInt(6)},
     on_metformin : {JBool(FALSE), JBool(TRUE)},
     on_insulin : {JBool(TRUE)}]

\* a disabled checkbox stays unchecked
Checkbox(disabled) == IF disabled THEN {JBool(FALSE)} ELSE {JBool(FALSE), JBool(TRUE)}

LogForms(u) ==
    [sleep_hours : {JFloat(70)},
     sleep_quality : {JStr("Good")},
     stress_level : {JStr("Low"), JStr("Medium"), JStr("High")},
     carbs_g : {JInt(0), JInt(90)},
     protein_g : {JInt(16)},
     fat_g : {JInt(0)},
     activity_minutes : {JInt(0), JInt(30)},
     activity_type : {JStr("None"), JStr("Aerobic"), JStr("Anaerobic")},
     took_metformin : Checkbox(~u.on_metformin),
     took_insulin : Checkbox(~u.on_insulin)]

NoResult ==
    /\ log' = NoLog
    /\ risk_score' = FZero
    /\ explanation' = << >>
    /\ suggestion' = NoMessage

InitGlucoflow ==
    /\ pc = "onboarding"
    /\ user = NoProfile
    /\ log = NoLog
    /\ risk_score = FZero
    /\ explanation = << >>
    /\ suggestion = NoMessage
    /\ ApiIdle

\* "Create My Profile"
CreateProfile(form) ==
    /\ pc = "onboarding"
    /\ IF ~Truthy(form.name) \/ Strip(form.name.s) = ""
       THEN UNCHANGED <<pc, user>>
       ELSE /\ user' = glucoflow_UserProfile(JStr(Strip(form.name.s)), form.age,
                                             form.diagnosis, form.years_since_diagnosis,
                                             form.bmi, form.on_metformin, form.on_insulin)
            /\ pc' = "dashboard"
    /\ NoResult
    /\ UNCHANGED apiVars

\* "Reset User Profile (Logout)"
ResetProfile ==
    /\ pc \in {"dashboard", "result"}
    /\ user' = NoProfile
    /\ pc' = "onboarding"
    /\ NoResult
    /\ UNCHANGED apiVars

\* "Get My Forecast"
GetForecast(form) ==
    /\ pc \in {"dashboard", "result"}
    /\ LET new_log == glucoflow_DailyLog(form)
           r == glucoflow_get_prediction_and_explanation(user, new_log)
       IN  /\ log' = new_log
           /\ risk_score' = r[1]
           /\ explanation' = r[2]
           /\ suggestion' = glucoflow_generate_personalized_feedback(user, new_log, r[1], r[2])
    /\ pc' = "result"
    /\ UNCHANGED <<user, apiVars>>

SubmitOnboarding == \E form \in OnboardingForms : CreateProfile(form)

SubmitLog == \E form \in LogForms(user) : GetForecast(form)

NextGlucoflow == SubmitOnboarding \/ ResetProfile \/ SubmitLog

SpecGlucoflow == InitGlucoflow /\ [][NextGlucoflow]_vars

(***************************************************************************)
(* Properties of the Streamlit front end (SpecGlucoflow).                  *)
(***************************************************************************)
\* C13: every DailyLog the front end builds from its form and passes to
\* get_prediction_and_explanation has activity_type in {"none", "aerobic",
\* "anaerobic"} and stress_level in {"low", "medium", "high"}, and a log
\* built from the choice of high stress gets the "High Stress Level" factor.
C13_FormSuppliesLowercaseTokens ==
    pc = "result" =>
        /\ log.activity_type \in ActivityTypes
        /\ log.stress_level \in StressValues
        /\ log.stress_level \in {"high", "High"} => HasKey(explanation, HighStress)

=============================================================================
